---- MODULE Spec2Model ----
(***************************************************************************)
(* The three in-memory CRUD services of the repository:                    *)
(*   - the employee service   (src/app.py),                                *)
(*   - the product service    (src/product_service/app.py),                *)
(*   - the generic item service (src/calculate.py).                        *)
(* Each is its own FastAPI application, so a run is a run of one of them:  *)
(* `service` is fixed at start-up and the other services' stores keep      *)
(* their initial value.                                                     *)
(*                                                                         *)
(* The employee and product handlers are `async def` with no await in      *)
(* their bodies: the event loop runs each of them to completion, so each   *)
(* is one atomic action.  The item handlers are plain `def`: FastAPI runs  *)
(* them on worker threads, so each one is split at the points where        *)
(* another thread can run between its read of db and its write to db.      *)
(*                                                                         *)
(* Representation:                                                         *)
(*   - a Python value that may be None is a set: None is {} and a value v  *)
(*     is {v}  (product fields can hold None, see update_product);         *)
(*   - a str that is lower()ed is a sequence of one-character strings, so  *)
(*     that lower() is computed character by character;                    *)
(*   - a float price is a whole number of cents;                           *)
(*   - a timestamp (datetime.utcnow().isoformat()) is the clock reading.   *)
(***************************************************************************)
EXTENDS Integers, Sequences, FiniteSets, TLC

VARIABLES
    service,            \* which application this process runs
    now,                \* the wall clock read by datetime.utcnow()
    employees_db,       \* src/app.py: the employee list
    next_employee_id,   \* src/app.py: the employee id counter
    products_db,        \* src/product_service/app.py: the product list
    next_product_id,    \* src/product_service/app.py: the product id counter
    db,                 \* src/calculate.py: the item dict, in insertion order
    pc,                 \* item service: where each worker thread is
    local,              \* item service: each worker thread's local variables
    calls,              \* number of requests dispatched so far
    resp,               \* the most recent response sent
    created,            \* history: <<id, candidate>> of each successful create, in order
    deleted,            \* history: ids whose delete succeeded
    origin              \* history: <<id, candidate>> of creates not yet followed by
                        \*          a successful update or delete of that id

vars == <<service, now, employees_db, next_employee_id, products_db,
          next_product_id, db, pc, local, calls, resp, created, deleted, origin>>

---------------------------------------------------------------------------
(* Bounds of the model. *)

MaxEmployeeOps == 3
MaxProductOps == 2
MaxItemOps == 4
MaxThreads == 2
MaxClock == 1

---------------------------------------------------------------------------
(* Python values. *)

None == {}
Some(v) == {v}
Val(o) == CHOOSE v \in o : TRUE

Uppers == <<"A","B","C","D","E","F","G","H","I","J","K","L","M",
            "N","O","P","Q","R","S","T","U","V","W","X","Y","Z">>
Lowers == <<"a","b","c","d","e","f","g","h","i","j","k","l","m",
            "n","o","p","q","r","s","t","u","v","w","x","y","z">>

LowerChar(c) ==
    IF \E i \in 1..26 : Uppers[i] = c
    THEN Lowers[CHOOSE i \in 1..26 : Uppers[i] = c]
    ELSE c

\* str.lower()
lower(s) == [i \in 1..Len(s) |-> LowerChar(s[i])]

\* seq with its element at index idx removed: list.pop(idx)
pop(seq, idx) == [i \in 1..(Len(seq) - 1) |-> IF i < idx THEN seq[i] ELSE seq[i + 1]]

\* the indexes of seq, as a for loop visits them
Indexes(seq) == 1..Len(seq)

\* the least of a set of indexes, or 0 when there is none: where a for loop
\* that leaves at its first hit stops
First(hits) ==
    IF hits = {} THEN 0 ELSE CHOOSE i \in hits : \A j \in hits : i <= j

\* datetime.utcnow().isoformat()
utcnow == now

---------------------------------------------------------------------------
(* Strings that are lower()ed, spelled out. *)

LaptopPro15 == <<"L","a","p","t","o","p"," ","P","r","o"," ","1","5">>
WirelessMouse == <<"W","i","r","e","l","e","s","s"," ","M","o","u","s","e">>
UsbCHub == <<"U","S","B","-","C"," ","H","u","b">>
usbchub == <<"u","s","b","-","c"," ","h","u","b">>
Electronics == <<"E","l","e","c","t","r","o","n","i","c","s">>
Accessories == <<"A","c","c","e","s","s","o","r","i","e","s">>
Desk == <<"D","e","s","k">>
Lamp == <<"L","a","m","p">>
Empty == <<>>

---------------------------------------------------------------------------
(* HTTP status codes. *)

HTTP_200_OK == 200
HTTP_201_CREATED == 201
HTTP_204_NO_CONTENT == 204
HTTP_400_BAD_REQUEST == 400
HTTP_404_NOT_FOUND == 404
HTTP_422_UNPROCESSABLE == 422
HTTP_500_INTERNAL == 500

\* a response: op and id and req are the request, status and body the answer
Response(op, id, req, status, body) ==
    [op |-> op, id |-> id, req |-> req, status |-> status, body |-> body]

NoBody == <<>>
NoReq == <<>>

---------------------------------------------------------------------------
(* The employee service, src/app.py. *)

EmployeeSeed ==
    << [id |-> 1, name |-> "John Doe", email |-> "john.doe@example.com",
        department |-> "Engineering", position |-> "Senior Developer",
        created_at |-> 0],
       [id |-> 2, name |-> "Jane Smith", email |-> "jane.smith@example.com",
        department |-> "Product", position |-> "Product Manager",
        created_at |-> 0] >>

\* the EmployeeCreate bodies the clients send
EmployeeInputs ==
    { [name |-> "John Clone", email |-> "john.doe@example.com",
       department |-> "Engineering", position |-> "Developer"],
      [name |-> "John Upper", email |-> "John.Doe@example.com",
       department |-> "Engineering", position |-> "Developer"],
      [name |-> "Alice Johnson", email |-> "alice.johnson@example.com",
       department |-> "Marketing", position |-> "Marketing Manager"],
      [name |-> "Employee One", email |-> "emp1@example.com",
       department |-> "IT", position |-> "Developer"] }

\* the loop of create_employee: is the email taken
EmailExists(employees, email) ==
    \E i \in Indexes(employees) : employees[i].email = email

get_all_employees ==
    /\ service = "employee"
    /\ calls < MaxEmployeeOps
    /\ calls' = calls + 1
    /\ resp' = Response("list", 0, NoReq, HTTP_200_OK, employees_db)
    /\ UNCHANGED <<service, now, employees_db, next_employee_id, products_db,
                   next_product_id, db, pc, local, created, deleted, origin>>

get_employee(employee_id) ==
    /\ service = "employee"
    /\ calls < MaxEmployeeOps
    /\ calls' = calls + 1
    /\ LET idx == First({i \in Indexes(employees_db) : employees_db[i].id = employee_id})
       IN  resp' = IF idx # 0
                   THEN Response("get", employee_id, NoReq, HTTP_200_OK, employees_db[idx])
                   ELSE Response("get", employee_id, NoReq, HTTP_404_NOT_FOUND, NoBody)
    /\ UNCHANGED <<service, now, employees_db, next_employee_id, products_db,
                   next_product_id, db, pc, local, created, deleted, origin>>

create_employee(employee_data) ==
    /\ service = "employee"
    /\ calls < MaxEmployeeOps
    /\ calls' = calls + 1
    /\ IF EmailExists(employees_db, employee_data.email)
       THEN /\ resp' = Response("create", 0, employee_data, HTTP_400_BAD_REQUEST, NoBody)
            /\ UNCHANGED <<employees_db, next_employee_id, created, origin>>
       ELSE LET new_employee ==
                    [id |-> next_employee_id,
                     name |-> employee_data.name,
                     email |-> employee_data.email,
                     department |-> employee_data.department,
                     position |-> employee_data.position,
                     created_at |-> utcnow]
            IN  /\ employees_db' = Append(employees_db, new_employee)
                /\ next_employee_id' = next_employee_id + 1
                /\ resp' = Response("create", 0, employee_data, HTTP_201_CREATED, new_employee)
                /\ created' = Append(created, <<new_employee.id, employee_data>>)
                /\ origin' = origin \cup {<<new_employee.id, employee_data>>}
    /\ UNCHANGED <<service, now, products_db, next_product_id, db, pc, local, deleted>>

---------------------------------------------------------------------------
(* The product service, src/product_service/app.py. *)

ProductSeed ==
    << [id |-> 1, name |-> Some(LaptopPro15),
        description |-> Some("High-performance laptop with 16GB RAM and 512GB SSD"),
        price |-> Some(129999), category |-> Some(Electronics),
        stock_quantity |-> Some(25), created_at |-> 0, updated_at |-> 0],
       [id |-> 2, name |-> Some(WirelessMouse),
        description |-> Some("Ergonomic wireless mouse with 6 buttons"),
        price |-> Some(2999), category |-> Some(Accessories),
        stock_quantity |-> Some(150), created_at |-> 0, updated_at |-> 0],
       [id |-> 3, name |-> Some(UsbCHub),
        description |-> Some("7-in-1 USB-C hub with HDMI, USB 3.0, and SD card reader"),
        price |-> Some(4999), category |-> Some(Accessories),
        stock_quantity |-> Some(80), created_at |-> 0, updated_at |-> 0] >>

\* the fields of ProductBase, and of Product
ProductBaseFields == {"name", "description", "price", "category", "stock_quantity"}
ProductFields == ProductBaseFields \cup {"id", "created_at", "updated_at"}

\* Field(gt=0) on price, Field(ge=0) on stock_quantity
FieldConstraint(f, v) ==
    CASE f = "price" -> v > 0
      [] f = "stock_quantity" -> v >= 0
      [] OTHER -> TRUE

\* ProductBase: every field required and not None, within its constraint
ProductBaseValid(data) ==
    \A f \in ProductBaseFields : data[f] # None /\ FieldConstraint(f, Val(data[f]))

\* ProductUpdate: every field Optional, a value given within its constraint
ProductUpdateValid(data) ==
    \A f \in DOMAIN data : data[f] # None => FieldConstraint(f, Val(data[f]))

\* the ProductCreate bodies the clients send
ProductInputs ==
    { [name |-> Some(usbchub), description |-> Some("hub"), price |-> Some(100),
       category |-> Some(Accessories), stock_quantity |-> Some(0)],
      [name |-> Some(Desk), description |-> Some("desk"), price |-> Some(100),
       category |-> Some(Electronics), stock_quantity |-> Some(0)],
      [name |-> Some(Lamp), description |-> Some("lamp"), price |-> Some(100),
       category |-> Some(Accessories), stock_quantity |-> Some(5)],
      [name |-> Some(Lamp), description |-> Some("lamp"), price |-> Some(0),
       category |-> Some(Accessories), stock_quantity |-> Some(5)] }

\* the ProductUpdate bodies the clients send: the fields set, each with its value
EmptyUpdate == <<>>
ProductUpdateInputs ==
    { EmptyUpdate,
      [name |-> Some(LaptopPro15)],
      [name |-> Some(Empty), stock_quantity |-> Some(0)],
      [category |-> Some(Electronics), price |-> Some(2999)],
      [price |-> Some(0)],
      [name |-> None] }

\* the category filters the clients send (None: no query parameter)
CategoryInputs == {None, Some(Empty), Some(lower(Accessories)), Some(Desk)}

\* the ids the clients address: every id assigned so far and the next one
ProductIds == 1..next_product_id

\* response_model=Product: the response is validated against Product.  A record
\* holding None in a required field fails it (500) where the response is
\* validated again, and passes (200) where a Product instance is trusted.
ProductResponseStatuses(products, ok) ==
    IF \A i \in Indexes(products) : ProductBaseValid(products[i])
    THEN {ok}
    ELSE {ok, HTTP_500_INTERNAL}

\* the loop of create_product over existing_product.name.lower():
\* "exists" at a match, "error" at a name that is None (AttributeError)
NameScan(products, name) ==
    LET idx == First({i \in Indexes(products) :
                         \/ products[i].name = None
                         \/ lower(Val(products[i].name)) = lower(name)})
    IN  CASE idx = 0 -> "free"
          [] products[idx].name = None -> "error"
          [] OTHER -> "exists"

\* [p for p in products_db if p.category.lower() == category.lower()]
CategoryFilter(products, category) ==
    LET Match(p) == lower(Val(p.category)) = lower(category)
    IN  SelectSeq(products, Match)

\* the same comprehension as a response: 500 when a category is None
CategoryResponse(op, req, category) ==
    IF \E i \in Indexes(products_db) : products_db[i].category = None
    THEN {Response(op, 0, req, HTTP_500_INTERNAL, NoBody)}
    ELSE LET filtered_products == CategoryFilter(products_db, category)
         IN  {Response(op, 0, req, s, filtered_products) :
                 s \in ProductResponseStatuses(filtered_products, HTTP_200_OK)}

get_all_products(category) ==
    /\ service = "product"
    /\ calls < MaxProductOps
    /\ calls' = calls + 1
    /\ IF category # None /\ Val(category) # Empty
       THEN resp' \in CategoryResponse("list", category, Val(category))
       ELSE resp' \in {Response("list", 0, category, s, products_db) :
                          s \in ProductResponseStatuses(products_db, HTTP_200_OK)}
    /\ UNCHANGED <<service, now, employees_db, next_employee_id, products_db,
                   next_product_id, db, pc, local, created, deleted, origin>>

get_products_by_category(category) ==
    /\ service = "product"
    /\ calls < MaxProductOps
    /\ calls' = calls + 1
    /\ resp' \in CategoryResponse("category", Some(category), category)
    /\ UNCHANGED <<service, now, employees_db, next_employee_id, products_db,
                   next_product_id, db, pc, local, created, deleted, origin>>

get_product(product_id) ==
    /\ service = "product"
    /\ calls < MaxProductOps
    /\ calls' = calls + 1
    /\ LET idx == First({i \in Indexes(products_db) : products_db[i].id = product_id})
       IN  IF idx # 0
           THEN resp' \in {Response("get", product_id, NoReq, s, products_db[idx]) :
                              s \in ProductResponseStatuses(<<products_db[idx]>>, HTTP_200_OK)}
           ELSE resp' = Response("get", product_id, NoReq, HTTP_404_NOT_FOUND, NoBody)
    /\ UNCHANGED <<service, now, employees_db, next_employee_id, products_db,
                   next_product_id, db, pc, local, created, deleted, origin>>

create_product(product_data) ==
    /\ service = "product"
    /\ calls < MaxProductOps
    /\ calls' = calls + 1
    /\ IF ~ProductBaseValid(product_data)
       THEN /\ resp' = Response("create", 0, product_data, HTTP_422_UNPROCESSABLE, NoBody)
            /\ UNCHANGED <<products_db, next_product_id, created, origin>>
       ELSE LET scan == NameScan(products_db, Val(product_data.name))
                new_product ==
                    [id |-> next_product_id,
                     name |-> product_data.name,
                     description |-> product_data.description,
                     price |-> product_data.price,
                     category |-> product_data.category,
                     stock_quantity |-> product_data.stock_quantity,
                     created_at |-> utcnow,
                     updated_at |-> utcnow]
            IN  CASE scan = "error" ->
                       /\ resp' = Response("create", 0, product_data, HTTP_500_INTERNAL, NoBody)
                       /\ UNCHANGED <<products_db, next_product_id, created, origin>>
                  [] scan = "exists" ->
                       /\ resp' = Response("create", 0, product_data, HTTP_400_BAD_REQUEST, NoBody)
                       /\ UNCHANGED <<products_db, next_product_id, created, origin>>
                  [] OTHER ->
                       /\ products_db' = Append(products_db, new_product)
                       /\ next_product_id' = next_product_id + 1
                       /\ resp' = Response("create", 0, product_data, HTTP_201_CREATED, new_product)
                       /\ created' = Append(created, <<new_product.id, product_data>>)
                       /\ origin' = origin \cup {<<new_product.id, product_data>>}
    /\ UNCHANGED <<service, now, employees_db, next_employee_id, db, pc, local, deleted>>

\* a copy that fills the fields not given with their ProductUpdate defaults
copy_with_defaults(product, update) ==
    [f \in ProductFields |->
        IF f \in DOMAIN update THEN update[f]
        ELSE IF f \in ProductBaseFields THEN None ELSE product[f]]

\* product.copy(update={**update_data, "updated_at": ...}): no validation
copy(product, update) ==
    [f \in ProductFields |-> IF f \in DOMAIN update THEN update[f] ELSE product[f]]

\* the test made on the model object, which is never falsy
no_fields_of_model(update_data) == FALSE

\* not update_data: the dict of the fields set is empty
no_fields(update_data) == DOMAIN update_data = {}

update_product(product_id, product_data) ==
    /\ service = "product"
    /\ calls < MaxProductOps
    /\ calls' = calls + 1
    /\ LET idx == First({i \in Indexes(products_db) : products_db[i].id = product_id})
           update_data == product_data
           updated_product ==
               copy(products_db[idx],
                    [f \in DOMAIN update_data \cup {"updated_at"} |->
                        IF f = "updated_at" THEN utcnow ELSE update_data[f]])
       IN  CASE ~ProductUpdateValid(product_data) ->
                  /\ resp' = Response("update", product_id, product_data,
                                      HTTP_422_UNPROCESSABLE, NoBody)
                  /\ UNCHANGED <<products_db, origin>>
             [] ProductUpdateValid(product_data) /\ idx = 0 ->
                  /\ resp' = Response("update", product_id, product_data,
                                      HTTP_404_NOT_FOUND, NoBody)
                  /\ UNCHANGED <<products_db, origin>>
             [] ProductUpdateValid(product_data) /\ idx # 0 /\ no_fields(update_data) ->
                  /\ resp' = Response("update", product_id, product_data,
                                      HTTP_400_BAD_REQUEST, NoBody)
                  /\ UNCHANGED <<products_db, origin>>
             [] OTHER ->
                  /\ products_db' = [products_db EXCEPT ![idx] = updated_product]
                  /\ resp' \in {Response("update", product_id, product_data, s, updated_product) :
                                   s \in ProductResponseStatuses(<<updated_product>>, HTTP_200_OK)}
                  /\ origin' = {o \in origin : o[1] # product_id}
    /\ UNCHANGED <<service, now, employees_db, next_employee_id, next_product_id,
                   db, pc, local, created, deleted>>

delete_product(product_id) ==
    /\ service = "product"
    /\ calls < MaxProductOps
    /\ calls' = calls + 1
    /\ LET idx == First({i \in Indexes(products_db) : products_db[i].id = product_id})
       IN  IF idx # 0
           THEN /\ products_db' = pop(products_db, idx)
                /\ resp' = Response("delete", product_id, NoReq, HTTP_204_NO_CONTENT, NoBody)
                /\ deleted' = deleted \cup {product_id}
                /\ origin' = {o \in origin : o[1] # product_id}
           ELSE /\ resp' = Response("delete", product_id, NoReq, HTTP_404_NOT_FOUND, NoBody)
                /\ UNCHANGED <<products_db, deleted, origin>>
    /\ UNCHANGED <<service, now, employees_db, next_employee_id, next_product_id,
                   db, pc, local, created>>

---------------------------------------------------------------------------
(* The generic item service, src/calculate.py.                             *)
(* db is a dict: its entries in insertion order, each a key and a value.   *)

Threads == 1..MaxThreads

\* the CreateItem bodies the clients send
ItemInputs ==
    { [name |-> "New Item", price |-> 1000],
      [name |-> "Item 2", price |-> 200] }

\* the ids the clients address
ItemIds == 1..MaxItemOps

NoLocal == [item_id |-> 0, item |-> NoReq]

\* a membership test that takes the keys to be 1..len(db)
ContainsByLen(d, key) == key <= Len(d)

\* item_id in db
Contains(d, key) == \E i \in Indexes(d) : d[i].key = key

\* db[key]
Lookup(d, key) == d[CHOOSE i \in Indexes(d) : d[i].key = key].value

\* db[key] = value: a new key goes to the end, a present key keeps its place
Store(d, key, value) ==
    IF Contains(d, key)
    THEN [i \in Indexes(d) |-> IF d[i].key = key THEN [key |-> key, value |-> value] ELSE d[i]]
    ELSE Append(d, [key |-> key, value |-> value])

\* db.pop(key), the dict without the key
Remove(d, key) ==
    pop(d, First({i \in Indexes(d) : d[i].key = key}))

\* list(db.values())
Values(d) == [i \in Indexes(d) |-> d[i].value]

\* len(db) + 1
NewId(d) == Len(d) + 1

\* a request is handed to a worker thread that is free
Dispatch(t) ==
    /\ service = "item"
    /\ pc[t] = "idle"
    /\ calls < MaxItemOps
    /\ calls' = calls + 1

list_items(t) ==
    /\ Dispatch(t)
    /\ resp' = Response("list", 0, NoReq, HTTP_200_OK, Values(db))
    /\ UNCHANGED <<service, now, employees_db, next_employee_id, products_db,
                   next_product_id, db, pc, local, created, deleted, origin>>

\* get_item, line 37: the membership test
get_item(t, item_id) ==
    /\ Dispatch(t)
    /\ IF ~Contains(db, item_id)
       THEN /\ resp' = Response("get", item_id, NoReq, HTTP_404_NOT_FOUND, NoBody)
            /\ UNCHANGED <<pc, local>>
       ELSE /\ pc' = [pc EXCEPT ![t] = "get_item"]
            /\ local' = [local EXCEPT ![t] = [item_id |-> item_id, item |-> NoReq]]
            /\ UNCHANGED resp
    /\ UNCHANGED <<service, now, employees_db, next_employee_id, products_db,
                   next_product_id, db, created, deleted, origin>>

\* get_item, line 39: db[item_id], a KeyError when the key has gone
get_item_return(t) ==
    /\ service = "item"
    /\ pc[t] = "get_item"
    /\ resp' = IF Contains(db, local[t].item_id)
               THEN Response("get", local[t].item_id, NoReq, HTTP_200_OK,
                             Lookup(db, local[t].item_id))
               ELSE Response("get", local[t].item_id, NoReq, HTTP_500_INTERNAL, NoBody)
    /\ pc' = [pc EXCEPT ![t] = "idle"]
    /\ local' = [local EXCEPT ![t] = NoLocal]
    /\ UNCHANGED <<service, now, employees_db, next_employee_id, products_db,
                   next_product_id, db, calls, created, deleted, origin>>

\* create_item, line 43: new_id = len(db) + 1
create_item(t, item) ==
    /\ Dispatch(t)
    /\ pc' = [pc EXCEPT ![t] = "create_item"]
    /\ local' = [local EXCEPT ![t] = [item_id |-> NewId(db), item |-> item]]
    /\ UNCHANGED <<service, now, employees_db, next_employee_id, products_db,
                   next_product_id, db, resp, created, deleted, origin>>

\* create_item, lines 44-46: db[new_id] = new_item.dict()
create_item_store(t) ==
    /\ service = "item"
    /\ pc[t] = "create_item"
    /\ LET new_id == local[t].item_id
           new_item == [id |-> new_id, name |-> local[t].item.name,
                        price |-> local[t].item.price]
       IN  /\ db' = Store(db, new_id, new_item)
           /\ resp' = Response("create", 0, local[t].item, HTTP_200_OK, new_item)
           /\ created' = Append(created, <<new_id, local[t].item>>)
           /\ origin' = origin \cup {<<new_id, local[t].item>>}
    /\ pc' = [pc EXCEPT ![t] = "idle"]
    /\ local' = [local EXCEPT ![t] = NoLocal]
    /\ UNCHANGED <<service, now, employees_db, next_employee_id, products_db,
                   next_product_id, calls, deleted>>

\* delete_item, line 50: the membership test
delete_item(t, item_id) ==
    /\ Dispatch(t)
    /\ IF ~Contains(db, item_id)
       THEN /\ resp' = Response("delete", item_id, NoReq, HTTP_404_NOT_FOUND, NoBody)
            /\ UNCHANGED <<pc, local>>
       ELSE /\ pc' = [pc EXCEPT ![t] = "delete_item"]
            /\ local' = [local EXCEPT ![t] = [item_id |-> item_id, item |-> NoReq]]
            /\ UNCHANGED resp
    /\ UNCHANGED <<service, now, employees_db, next_employee_id, products_db,
                   next_product_id, db, created, deleted, origin>>

\* delete_item, lines 52-53: db.pop(item_id), a KeyError when the key has gone
delete_item_pop(t) ==
    /\ service = "item"
    /\ pc[t] = "delete_item"
    /\ IF Contains(db, local[t].item_id)
       THEN /\ db' = Remove(db, local[t].item_id)
            /\ resp' = Response("delete", local[t].item_id, NoReq, HTTP_200_OK,
                                Lookup(db, local[t].item_id))
            /\ deleted' = deleted \cup {local[t].item_id}
            /\ origin' = {o \in origin : o[1] # local[t].item_id}
       ELSE /\ resp' = Response("delete", local[t].item_id, NoReq, HTTP_500_INTERNAL, NoBody)
            /\ UNCHANGED <<db, deleted, origin>>
    /\ pc' = [pc EXCEPT ![t] = "idle"]
    /\ local' = [local EXCEPT ![t] = NoLocal]
    /\ UNCHANGED <<service, now, employees_db, next_employee_id, products_db,
                   next_product_id, calls, created>>

---------------------------------------------------------------------------
(* The clock, and the specifications. *)

\* time passes between two readings of the clock of a service that reads it
Tick ==
    /\ service # "item"
    /\ now < MaxClock
    /\ now' = now + 1
    /\ UNCHANGED <<service, employees_db, next_employee_id, products_db,
                   next_product_id, db, pc, local, calls, resp, created, deleted, origin>>

Services == {"employee", "product", "item"}

Init ==
    /\ service \in Services
    /\ now = 0
    /\ employees_db = EmployeeSeed
    /\ next_employee_id = 3
    /\ products_db = ProductSeed
    /\ next_product_id = 4
    /\ db = <<>>
    /\ pc = [t \in Threads |-> "idle"]
    /\ local = [t \in Threads |-> NoLocal]
    /\ calls = 0
    /\ resp = [op |-> "none", id |-> 0, req |-> NoReq,
               status |-> 0, body |-> NoBody]
    /\ created = <<>>
    /\ deleted = {}
    /\ origin = {}

Next ==
    \/ Tick
    \/ get_all_employees
    \/ \E employee_id \in 1..next_employee_id : get_employee(employee_id)
    \/ \E employee_data \in EmployeeInputs : create_employee(employee_data)
    \/ \E category \in CategoryInputs : get_all_products(category)
    \/ \E category \in {Val(c) : c \in CategoryInputs \ {None, Some(Empty)}} :
           get_products_by_category(category)
    \/ \E product_id \in ProductIds : get_product(product_id)
    \/ \E product_data \in ProductInputs : create_product(product_data)
    \/ \E product_id \in ProductIds, product_data \in ProductUpdateInputs :
           update_product(product_id, product_data)
    \/ \E product_id \in ProductIds : delete_product(product_id)
    \/ \E t \in Threads : list_items(t)
    \/ \E t \in Threads, item_id \in ItemIds : get_item(t, item_id)
    \/ \E t \in Threads : get_item_return(t)
    \/ \E t \in Threads, item \in ItemInputs : create_item(t, item)
    \/ \E t \in Threads : create_item_store(t)
    \/ \E t \in Threads, item_id \in ItemIds : delete_item(t, item_id)
    \/ \E t \in Threads : delete_item_pop(t)

\* the services as deployed: the item handlers run on concurrent worker threads
Spec == Init /\ [][Next]_vars

\* the clients send one request at a time: a request is dispatched only
\* when no handler is running
AllIdle == \A t \in Threads : pc[t] = "idle"
SerialNext == Next /\ (AllIdle \/ \E t \in Threads : pc[t] # "idle" /\ pc'[t] = "idle")
SerialSpec == Init /\ [][SerialNext]_vars

---------------------------------------------------------------------------
(* What the properties below read off a step or a state. *)

\* this step sent a response: resp' is that response
Responds ==
    \/ calls' # calls /\ pc' = pc
    \/ \E t \in Threads : pc[t] # "idle" /\ pc'[t] = "idle"

\* this step is a create that succeeded: created' ends with its id and candidate
CreateSucceeds == Len(created') = Len(created) + 1

\* the highest id of the seed records of the service
SeedMaxId ==
    CASE service = "employee" -> EmployeeSeed[Len(EmployeeSeed)].id
      [] service = "product" -> ProductSeed[Len(ProductSeed)].id
      [] OTHER -> 0

EmployeeLive(k) == \E i \in Indexes(employees_db) : employees_db[i].id = k
ProductLive(k) == \E i \in Indexes(products_db) : products_db[i].id = k
ItemLive(k) == \E i \in Indexes(db) : db[i].key = k

\* the stores of the three services
stores == <<employees_db, next_employee_id, products_db, next_product_id, db>>

---------------------------------------------------------------------------
(* C1: the ids returned by the N successful creates of a run are           *)
(* seed_max_id + 1, ..., seed_max_id + N, in this order, whatever deletes  *)
(* come between them; for employees, products and items.                   *)
C1_IdMonotonicity ==
    \A i \in 1..Len(created) : created[i][1] = SeedMaxId + i

(* C2: once delete(k) has succeeded, no later successful create returns    *)
(* the id k; for products and items.                                       *)
C2_NoIdReuse ==
    [][CreateSucceeds => created'[Len(created')][1] \notin deleted]_vars

(* C3: in any reachable state, a create whose candidate is valid and whose *)
(* uniqueness-field value is held by a live record (the email, compared    *)
(* exactly, for employees; the name, compared without case, for products)  *)
(* is answered 400 and leaves the records and the id counter unchanged.    *)
C3_DuplicateCreateConflicts ==
    [][ /\ calls' # calls
        /\ resp'.op = "create"
        /\ \/ /\ service = "employee"
              /\ \E i \in Indexes(employees_db) : employees_db[i].email = resp'.req.email
           \/ /\ service = "product"
              /\ ProductBaseValid(resp'.req)
              /\ \E i \in Indexes(products_db) :
                    /\ products_db[i].name # None
                    /\ lower(Val(products_db[i].name)) = lower(Val(resp'.req.name))
        => /\ resp'.status = HTTP_400_BAD_REQUEST
           /\ UNCHANGED stores ]_vars

(* C4: in every reachable state no two live records of a repository hold   *)
(* the same uniqueness-field value (employee email compared exactly,       *)
(* product name compared without case).                                    *)
C4_UniquenessInvariant ==
    /\ \A i, j \in Indexes(employees_db) :
          i # j => employees_db[i].email # employees_db[j].email
    /\ \A i, j \in Indexes(products_db) :
          i # j =>
             /\ products_db[i].name = None => products_db[j].name # None
             /\ products_db[i].name # None /\ products_db[j].name # None =>
                   lower(Val(products_db[i].name)) # lower(Val(products_db[j].name))

\* this step is an update_product that replaced the record: resp' carries
\* the id, the fields given and the record returned
UpdateSucceeds ==
    /\ service = "product"
    /\ calls' # calls
    /\ resp'.op = "update"
    /\ resp'.body # NoBody

(* C5: a successful product update(id, partial) gives the record with that *)
(* id the values of partial for the fields partial holds (a falsy value    *)
(* too), keeps every other field but updated_at, id and created_at among   *)
(* them, returns that record, and leaves every other record, the order and *)
(* the id counter unchanged.                                               *)
C5_PartialUpdateIsolation ==
    [][ UpdateSucceeds =>
        \E idx \in Indexes(products_db) :
           /\ products_db[idx].id = resp'.id
           /\ Len(products_db') = Len(products_db)
           /\ \A i \in Indexes(products_db) \ {idx} : products_db'[i] = products_db[i]
           /\ \A f \in DOMAIN resp'.req : products_db'[idx][f] = resp'.req[f]
           /\ \A f \in ProductFields \ (DOMAIN resp'.req \cup {"updated_at"}) :
                 products_db'[idx][f] = products_db[idx][f]
           /\ resp'.body = products_db'[idx]
           /\ next_product_id' = next_product_id ]_vars

\* an update that gave an empty name and a zero stock has been applied
C5_Witness ==
    /\ resp.op = "update"
    /\ resp.status = HTTP_200_OK
    /\ DOMAIN resp.req = {"name", "stock_quantity"}
    /\ \E i \in Indexes(products_db) :
          /\ products_db[i].id = resp.id
          /\ products_db[i].name = Some(Empty)
          /\ products_db[i].stock_quantity = Some(0)
          /\ products_db[i].price # None
          /\ products_db[i].updated_at > products_db[i].created_at

\* this step is an update_product with no field given
EmptyUpdateStep ==
    /\ service = "product"
    /\ calls' # calls
    /\ resp'.op = "update"
    /\ DOMAIN resp'.req = {}

(* C6, as stated: for every id, live or not, update(id, {}) is answered    *)
(* 400 and leaves the repository unchanged.                                *)
C6_EmptyUpdateAlwaysRejected ==
    [][ EmptyUpdateStep =>
        /\ resp'.status = HTTP_400_BAD_REQUEST
        /\ UNCHANGED stores ]_vars

(* C6, amended: update(id, {}) is answered 400 when a live record has the  *)
(* id and 404 when none has, and leaves the repository unchanged in both   *)
(* cases.                                                                  *)
C6_EmptyUpdateRejected ==
    [][ EmptyUpdateStep =>
        /\ resp'.status = IF ProductLive(resp'.id)
                          THEN HTTP_400_BAD_REQUEST
                          ELSE HTTP_404_NOT_FOUND
        /\ UNCHANGED stores ]_vars

\* an empty update of a live record has been answered 400
C6_Witness ==
    /\ resp.op = "update"
    /\ DOMAIN resp.req = {}
    /\ ProductLive(resp.id)
    /\ resp.status = HTTP_400_BAD_REQUEST

\* this step dispatches delete(k): it answers at once, or it goes on to pop
DeleteDispatched(k) ==
    /\ calls' # calls
    /\ \/ /\ pc' = pc
          /\ resp'.op = "delete"
          /\ resp'.id = k
       \/ \E t \in Threads :
             /\ pc[t] = "idle"
             /\ pc'[t] = "delete_item"
             /\ local'[t].item_id = k

(* C7: in any reachable state, delete(id) for an id no live record holds   *)
(* is answered 404 and leaves the records, their order and the id counter  *)
(* unchanged; for products and for items.                                  *)
C7_DeleteMissingNotFound ==
    [][ \A k \in ProductIds \cup ItemIds :
           /\ DeleteDispatched(k)
           /\ \/ service = "product" /\ ~ProductLive(k)
              \/ service = "item" /\ ~ItemLive(k)
           => /\ resp' = Response("delete", k, NoReq, HTTP_404_NOT_FOUND, NoBody)
              /\ pc' = pc
              /\ UNCHANGED stores ]_vars

\* a delete of an id that was deleted before has been answered 404, with
\* records still in the repository
C7_Witness ==
    /\ resp.op = "delete"
    /\ resp.status = HTTP_404_NOT_FOUND
    /\ resp.id \in deleted
    /\ \/ service = "product" /\ Len(products_db) > 0
       \/ service = "item" /\ Len(db) > 0

(* C8: creates dispatched concurrently run one after the other as wholes,  *)
(* so no two successful creates return the same id; for the async employee *)
(* and product handlers and for the item handler run on worker threads.    *)
C8_ConcurrentCreatesDistinctIds ==
    \A i, j \in 1..Len(created) : i # j => created[i][1] # created[j][1]

\* get(k): the record with id k, or NoBody
GetRecord(k) ==
    CASE service = "employee" ->
           IF EmployeeLive(k)
           THEN employees_db[CHOOSE i \in Indexes(employees_db) : employees_db[i].id = k]
           ELSE NoBody
      [] service = "product" ->
           IF ProductLive(k)
           THEN products_db[CHOOSE i \in Indexes(products_db) : products_db[i].id = k]
           ELSE NoBody
      [] OTHER ->
           IF ItemLive(k)
           THEN db[CHOOSE i \in Indexes(db) : db[i].key = k].value
           ELSE NoBody

(* C9: after a successful create that returned id k, get(k) returns a      *)
(* record whose domain fields are the ones submitted to that create, in    *)
(* every state up to the next successful update or delete of k.            *)
C9_CreateThenGet ==
    \A o \in origin :
       /\ GetRecord(o[1]) # NoBody
       /\ \A f \in DOMAIN o[2] : GetRecord(o[1])[f] = o[2][f]

\* list(): the records of the service, in order
ListRecords ==
    CASE service = "employee" -> employees_db
      [] service = "product" -> products_db
      [] OTHER -> Values(db)

(* C10: every successful create adds exactly one record to list(): the     *)
(* new record, at the end, every record that was there staying as it was;  *)
(* for employees, products and items, after deletes too.                   *)
C10_CreateAppendsOne ==
    [][CreateSucceeds => ListRecords' = Append(ListRecords, resp'.body)]_vars

\* this step is a delete(k) that succeeded
DeleteSucceeds(k) ==
    /\ Responds
    /\ resp'.op = "delete"
    /\ resp'.id = k
    /\ resp'.status \in {HTTP_200_OK, HTTP_204_NO_CONTENT}

\* the records of list without the one whose id is k, in the same order
Without(list, k) ==
    LET Keep(r) == r.id # k
    IN  SelectSeq(list, Keep)

(* C11: a successful delete(k) of a live id takes the record with id k out *)
(* of list() and leaves the other records in the same order with the same  *)
(* values, and from then on get(k) is NotFound in every later state; for   *)
(* products and items.                                                     *)
C11_DeleteRemovesForGood ==
    [][ /\ \A k \in ProductIds \cup ItemIds :
              DeleteSucceeds(k) => ListRecords' = Without(ListRecords, k)
        /\ \A k \in deleted' : GetRecord(k)' = NoBody ]_vars

\* this step is an update of product k answered 200
UpdateAnswersOk(k) ==
    /\ service = "product"
    /\ calls' # calls
    /\ resp'.op = "update"
    /\ resp'.id = k
    /\ resp'.status = HTTP_200_OK

InCategory(c) ==
    LET Match(p) == p.category # None /\ lower(Val(p.category)) = lower(c)
    IN  SelectSeq(products_db, Match)

(* C13: for every category string, the empty string and a string matching  *)
(* no record among them, the product list with that filter and the         *)
(* by-category route both return exactly the live records whose category   *)
(* equals it case-insensitively, in insertion order (an empty sequence,    *)
(* never an error, when none does); the list without a filter returns all  *)
(* live records.                                                           *)
C13_CategoryFilterExact ==
    service = "product" /\ resp.op \in {"list", "category"} =>
        /\ resp.status = HTTP_200_OK
        /\ resp.body = IF resp.req = None
                       THEN products_db
                       ELSE InCategory(Val(resp.req))

(* C14: every live product has a non-null name, description and category, *)
(* a price above 0 and a stock_quantity of at least 0: update rejects what *)
(* create rejects (price <= 0, stock_quantity < 0, an explicit null for    *)
(* one of the five fields) with a ValidationError and no mutation.         *)
C14_LiveProductsValid ==
    \A i \in Indexes(products_db) :
        /\ products_db[i].name # None
        /\ products_db[i].description # None
        /\ products_db[i].category # None
        /\ products_db[i].price # None /\ Val(products_db[i].price) > 0
        /\ products_db[i].stock_quantity # None
        /\ Val(products_db[i].stock_quantity) >= 0

(* C15: the locate-then-mutate handlers of the item service, which run on  *)
(* the thread pool, answer as if they ran one after the other: a delete(k) *)
(* or get(k), whatever runs at the same time, ends with its record or with *)
(* NotFound and never with an unhandled error, and a delete(k) that        *)
(* succeeds is the one that took the record out.                           *)
C15_LocateThenMutateSerialized ==
    [][ service = "item" /\ Responds /\ resp'.op \in {"delete", "get"} =>
           /\ resp'.status \in {HTTP_200_OK, HTTP_404_NOT_FOUND}
           /\ \A k \in ItemIds :
                 DeleteSucceeds(k) => ItemLive(k) /\ ~ItemLive(k)' ]_vars

====
